---- MODULE Spec2Model ----
(***************************************************************************)
(* Model of the client-side data layer of the sales dashboard:             *)
(*   - DataCache / DataService / withRetry   (src/services/dataService.ts) *)
(*   - useSalesStore with its persist options (src/store/salesStore.ts)    *)
(*   - DataInitializer                   (src/services/dataInitializer.ts) *)
(* Time is the wall clock in milliseconds; it advances in steps of TickMs. *)
(* Timers (network latency, backoff, the initializer's timeout) fire at    *)
(* any later step: the event loop gives no upper bound on their lateness.  *)
(***************************************************************************)
EXTENDS Integers, Sequences, FiniteSets, TLC

VARIABLES
    now,        \* Date.now(), in ms
    store,      \* the zustand state object of useSalesStore
    storage,    \* localStorage["sales-store"]: the persisted record or Null
    cache,      \* DataCache.cache: key -> CacheEntry or Null
    procs,      \* the loadSalesData() invocations in flight
    reloads,    \* page loads so far (each one constructs the store anew)
    initialized,            \* DataInitializer.initialized
    initializationPromise,  \* DataInitializer.initializationPromise: a run or 0
    runs,       \* the _performInitialization() runs
    callers,    \* the initialize() calls
    wr,         \* the withRetry() call
    written,    \* key -> the last DataCache.set made for it (history variable)
    ret,        \* what the last DataCache operation returned (history variable)
    vd,         \* the dataset handed to validateSalesData and what came of it
    last        \* the operation that made the last step (history variable)

initVars == <<initialized, initializationPromise, runs, callers>>
auxVars == <<wr, written, ret, vd>>
vars == <<now, store, storage, cache, procs, reloads, initVars, auxVars, last>>

----------------------------------------------------------------------------
(* Bounds of the model *)

TickMs == 150000
MaxTicks == 3
MaxReloads == 1
MaxRetriesArg == 3
MaxLen == 2

MaxTime == MaxTicks * TickMs
\* two loadSalesData() invocations can be in flight together, two
\* initialization runs can be started and two initialize() calls made
Procs == {1, 2}
Runs == {1, 2}
Callers == {1, 2}

----------------------------------------------------------------------------
(* Program constants *)

CACHE_EXPIRY_MS == 5 * 60 * 1000
MAX_RETRIES == 3
BASE_RETRY_DELAY_MS == 1000
CACHE_DURATION_MS == 5 * 60 * 1000
RETRY_BACKOFF_MULTIPLIER == 2
RETRY_DELAY_MS == 1000
INITIAL_LOAD_TIMEOUT == 10000
CacheKey == "sales-data"
Keys == {CacheKey, "other"}

----------------------------------------------------------------------------
(* Values *)

Null == [kind |-> "null"]
DateOf(t) == [kind |-> "Date", time |-> t]
StringOf(s) == [kind |-> "string", text |-> s]
Dataset(t) == [kind |-> "data", born |-> t]

RECURSIVE Pow(_, _)
Pow(b, e) == IF e = 0 THEN 1 ELSE b * Pow(b, e - 1)

RECURSIVE Digits(_)
Digits(n) == IF n < 10 THEN <<n>> ELSE Append(Digits(n \div 10), n % 10)

RECURSIVE Number(_)
Number(s) == IF Len(s) = 0 THEN 0
             ELSE 10 * Number(SubSeq(s, 1, Len(s) - 1)) + s[Len(s)]

\* Date.prototype.toJSON: the instant written out as text
ToJSON(d) == IF d.kind = "Date" THEN StringOf(Digits(d.time)) ELSE d

\* new Date(x) for a string or a Date
NewDate(x) == IF x.kind = "string" THEN DateOf(Number(x.text)) ELSE x

----------------------------------------------------------------------------
(* DataServiceError and createErrorFromType *)

ErrorTypes == {"NETWORK_ERROR", "TIMEOUT_ERROR", "SERVER_ERROR", "VALIDATION_ERROR"}

createErrorFromType(errorType) ==
    [kind |-> "DataServiceError", type |-> errorType,
     retryable |-> (errorType # "VALIDATION_ERROR")]

createDataErrorOfFirstAttempt(error, attempt) ==
    IF error.kind = "DataServiceError"
    THEN [kind |-> "DataError", code |-> error.type,
          details |-> [retryable |-> error.retryable, attempt |-> 1]]
    ELSE [kind |-> "DataError", code |-> "UNKNOWN_ERROR",
          details |-> [attempt |-> 1]]

createDataError(error, attempt) ==
    IF error.kind = "DataServiceError"
    THEN [kind |-> "DataError", code |-> error.type,
          details |-> [retryable |-> error.retryable, attempt |-> attempt]]
    ELSE [kind |-> "DataError", code |-> "UNKNOWN_ERROR",
          details |-> [attempt |-> attempt]]

----------------------------------------------------------------------------
(* DataCache *)

CacheSet(c, key, data, ttlMs) ==
    [c EXCEPT ![key] = [kind |-> "entry", data |-> data,
                        timestamp |-> now, expiresAt |-> now + ttlMs]]

CacheGetValueExpiringEarly(c, key) ==
    IF c[key] = Null THEN Null
    ELSE IF now >= c[key].expiresAt THEN Null
    ELSE c[key].data

\* get(key): the value returned, and the map it leaves behind
CacheGetValue(c, key) ==
    IF c[key] = Null THEN Null
    ELSE IF now > c[key].expiresAt THEN Null
    ELSE c[key].data

CacheGetMap(c, key) ==
    IF c[key] # Null /\ now > c[key].expiresAt THEN [c EXCEPT ![key] = Null] ELSE c

CacheHas(c, key) == CacheGetValue(c, key) # Null

CacheGetMetadata(c, key) ==
    IF c[key] = Null THEN Null
    ELSE [timestamp |-> c[key].timestamp, expiresAt |-> c[key].expiresAt]

CacheClear(c) == [k \in Keys |-> Null]

----------------------------------------------------------------------------
(* validateSalesData and the validation step of DataService.loadSalesData *)

\* JavaScript values as far as the validator tells them apart
NumberValue == [kind |-> "number"]
TextValue(format) == [kind |-> "string", format |-> format]
ArrayOf(items) == [kind |-> "array", items |-> items]
NotAnArray == [kind |-> "object"]

IsArray(x) == x.kind = "array"

\* name && typeof name === 'string'
IsName(x) == x.kind = "string" /\ x.format # "empty"

\* sale === null || typeof sale === 'number'
IsSale(x) == x = Null \/ x.kind = "number"

\* typeof date === 'string' and one of the two patterns matches
IsDateLabel(x) == x.kind = "string" /\ x.format \in {"YYYY-MM-DD", "Week N"}

validCategory(category) ==
    /\ IsName(category.name)
    /\ IsArray(category.sales)
    /\ \A i \in 1..Len(category.sales.items) : IsSale(category.sales.items[i])

validBrand(brand) ==
    /\ IsName(brand.name)
    /\ IsArray(brand.categories)
    /\ \A i \in 1..Len(brand.categories.items) : validCategory(brand.categories.items[i])

validateSalesData(data) ==
    IF data = Null \/ data.kind # "object" THEN FALSE
    ELSE IF ~IsArray(data.brands) \/ ~IsArray(data.dateRange) THEN FALSE
    ELSE /\ \A i \in 1..Len(data.brands.items) : validBrand(data.brands.items[i])
         /\ \A i \in 1..Len(data.dateRange.items) : IsDateLabel(data.dateRange.items[i])

NoValidation == [pc |-> "none", data |-> Null, error |-> Null]

----------------------------------------------------------------------------
(* useSalesStore: state, set, selectors *)

InitialState ==
    [salesData |-> Null, isLoading |-> FALSE, error |-> Null, lastUpdated |-> Null,
     cacheExpiry |-> CACHE_EXPIRY_MS, retryCount |-> 0, maxRetries |-> MAX_RETRIES,
     retryDelay |-> BASE_RETRY_DELAY_MS, isInitialLoad |-> TRUE, isRefreshing |-> FALSE]

\* zustand set(partial): shallow merge into a new state object
Set(st, patch) ==
    [f \in DOMAIN st |-> IF f \in DOMAIN patch THEN patch[f] ELSE st[f]]

getCacheAge(st) ==
    IF st.lastUpdated = Null THEN "Infinity"
    ELSE LET lastUpdatedDate == IF st.lastUpdated.kind = "Date"
                                THEN st.lastUpdated
                                ELSE NewDate(st.lastUpdated)
         IN  now - lastUpdatedDate.time

isCacheValidAgainstRetryDelay(st) ==
    IF st.lastUpdated = Null \/ st.salesData = Null THEN FALSE
    ELSE getCacheAge(st) < st.retryDelay

isCacheValid(st) ==
    IF st.lastUpdated = Null \/ st.salesData = Null THEN FALSE
    ELSE getCacheAge(st) < st.cacheExpiry

canRetry(st) ==
    IF st.error = Null THEN FALSE
    ELSE LET details == st.error.details
         IN  /\ ("retryable" \in DOMAIN details => details.retryable # FALSE)
             /\ st.retryCount < st.maxRetries

setSalesData(st, data) ==
    Set(st, [salesData |-> data, lastUpdated |-> DateOf(now), error |-> Null,
             retryCount |-> 0, isInitialLoad |-> FALSE, isRefreshing |-> FALSE])

setErrorDroppingData(st, error) ==
    Set(st, [salesData |-> Null, error |-> error, isLoading |-> FALSE,
             isRefreshing |-> FALSE])

setError(st, error) ==
    Set(st, [error |-> error, isLoading |-> FALSE, isRefreshing |-> FALSE])

----------------------------------------------------------------------------
(* persist: partialize, storage.setItem / getItem, merge on hydration *)

partializeDroppingTimestamp(st) ==
    [salesData |-> st.salesData, lastUpdated |-> Null,
     cacheExpiry |-> st.cacheExpiry, maxRetries |-> st.maxRetries,
     retryDelay |-> st.retryDelay]

partialize(st) ==
    [salesData |-> st.salesData, lastUpdated |-> st.lastUpdated,
     cacheExpiry |-> st.cacheExpiry, maxRetries |-> st.maxRetries,
     retryDelay |-> st.retryDelay]

\* JSON.stringify of the partial state: a Date becomes its text
setItem(value) == [value EXCEPT !.lastUpdated = ToJSON(value.lastUpdated)]

getItemKeepingText(str) == str

\* JSON.parse, then lastUpdated converted back to a Date when truthy
getItem(str) ==
    IF str = Null THEN Null
    ELSE IF str.lastUpdated # Null
         THEN [str EXCEPT !.lastUpdated = NewDate(str.lastUpdated)]
         ELSE str

\* persist's default merge: {...currentState, ...persistedState}
Hydrate(str) ==
    LET parsed == getItem(str)
    IN  IF parsed = Null THEN InitialState ELSE Set(InitialState, parsed)

Persist(st) == setItem(partialize(st))

----------------------------------------------------------------------------
(* withRetry(operation, maxRetries, baseDelay) *)

IdleRetry == [pc |-> "idle", maxRetries |-> 0, baseDelay |-> 0, attempt |-> 0,
              calls |-> 0, lastError |-> Null, waits |-> <<>>, outcome |-> Null,
              thrown |-> <<>>]

\* the error object thrown by the k-th invocation of the operation
Thrown(error, k) == [kind |-> "thrown", error |-> error, call |-> k]

\* new Error('Operation failed after retries')
InitialError == Thrown([kind |-> "Error"], 0)

\* the head of the for loop: the operation is invoked while
\* attempt <= maxRetries + 1, else the loop is left and lastError is thrown
LoopHeadOffByOne(w, attempt) ==
    IF attempt <= w.maxRetries
    THEN [w EXCEPT !.pc = "calling", !.attempt = attempt, !.calls = w.calls + 1]
    ELSE [w EXCEPT !.pc = "rejected", !.attempt = attempt, !.outcome = w.lastError]

LoopHead(w, attempt) ==
    IF attempt <= w.maxRetries + 1
    THEN [w EXCEPT !.pc = "calling", !.attempt = attempt, !.calls = w.calls + 1]
    ELSE [w EXCEPT !.pc = "rejected", !.attempt = attempt, !.outcome = w.lastError]

CatchAlwaysRetrying(w, error) ==
    LET w1 == [w EXCEPT !.lastError = error, !.thrown = Append(w.thrown, error)]
    IN  IF w.attempt > w.maxRetries
        THEN [w1 EXCEPT !.pc = "rejected", !.outcome = error]
        ELSE LET delay == w.baseDelay * Pow(RETRY_BACKOFF_MULTIPLIER, w.attempt - 1)
             IN  [w1 EXCEPT !.pc = "waiting", !.waits = Append(w.waits, delay)]

\* the catch block
Catch(w, error) ==
    LET w1 == [w EXCEPT !.lastError = error, !.thrown = Append(w.thrown, error)]
    IN  IF error.error.kind = "DataServiceError" /\ ~error.error.retryable
        THEN [w1 EXCEPT !.pc = "rejected", !.outcome = error]
        ELSE IF w.attempt > w.maxRetries
        THEN [w1 EXCEPT !.pc = "rejected", !.outcome = error]
        ELSE LET delay == w.baseDelay * Pow(RETRY_BACKOFF_MULTIPLIER, w.attempt - 1)
             IN  [w1 EXCEPT !.pc = "waiting", !.waits = Append(w.waits, delay)]

RetryFrame == UNCHANGED <<now, store, storage, cache, procs, reloads, initVars,
                          written, ret, vd>>

WithRetry ==
    /\ wr.pc \in {"idle", "resolved", "rejected"}
    /\ \E maxRetries \in 0..MaxRetriesArg, baseDelay \in {RETRY_DELAY_MS, 2 * RETRY_DELAY_MS} :
          wr' = LoopHead([IdleRetry EXCEPT !.maxRetries = maxRetries,
                                           !.baseDelay = baseDelay,
                                           !.lastError = InitialError], 1)
    /\ last' = [op |-> "withRetry", proc |-> 0, result |-> "called"]
    /\ RetryFrame

OperationResolves ==
    /\ wr.pc = "calling"
    /\ wr' = [wr EXCEPT !.pc = "resolved", !.outcome = [kind |-> "value", call |-> wr.calls]]
    /\ last' = [op |-> "operation", proc |-> 0, result |-> "resolved"]
    /\ RetryFrame

\* the operation throws a DataServiceError
OperationThrows ==
    /\ wr.pc = "calling"
    /\ \E errorType \in ErrorTypes :
          wr' = Catch(wr, Thrown(createErrorFromType(errorType), wr.calls))
    /\ last' = [op |-> "operation", proc |-> 0, result |-> "threw"]
    /\ RetryFrame

\* the operation throws something that is no DataServiceError
OperationThrowsOther ==
    /\ wr.pc = "calling"
    /\ wr' = Catch(wr, Thrown([kind |-> "Error"], wr.calls))
    /\ last' = [op |-> "operation", proc |-> 0, result |-> "threw"]
    /\ RetryFrame

\* the backoff timer fires: attempt++ and the loop goes on
DelayElapses ==
    /\ wr.pc = "waiting"
    /\ wr' = LoopHead(wr, wr.attempt + 1)
    /\ last' = [op |-> "delay", proc |-> 0, result |-> "elapsed"]
    /\ RetryFrame

NextRetry ==
    \/ WithRetry
    \/ OperationResolves
    \/ OperationThrows
    \/ OperationThrowsOther
    \/ DelayElapses

----------------------------------------------------------------------------
(* The loadSalesData() invocations *)

IdleProc == [pc |-> "idle", attempt |-> 0, response |-> Null, useCache |-> FALSE,
             forceRefresh |-> FALSE, delay |-> 0, before |-> Null, clean |-> TRUE,
             overlap |-> FALSE, cleared |-> FALSE]

Ev(op, p, result) == [op |-> op, proc |-> p, result |-> result]

\* the run whose race is decided by the promise of invocation p, or 0
AwaitingRun(p) ==
    IF \E r \in Runs : runs[r].pc = "pending" /\ runs[r].load = p
    THEN CHOOSE r \in Runs : runs[r].pc = "pending" /\ runs[r].load = p
    ELSE 0

\* How a block of code completes
Returned == [kind |-> "returned"]
ThrownBy(error) == [kind |-> "thrown", error |-> error]

\* try { body } catch { handler }: a thrown body completes as the handler does
TryCatch(body, handler) == IF body.kind = "thrown" THEN handler ELSE body

\* attemptLoad's last attempt: the catch block ends normally after setError
attemptLoadOutcome(service) == TryCatch(service, Returned)

\* loadSalesData, lines 201-208: attemptLoad awaited inside try / catch /
\* finally; the async function's promise follows how the block completes
LoadPromise(error) ==
    LET service == IF error = Null THEN Returned ELSE ThrownBy(error)
        outcome == TryCatch(attemptLoadOutcome(service), Returned)
    IN  IF outcome.kind = "returned" THEN "resolved" ELSE "rejected"

\* loadSalesData() of invocation p completes: how, from which source, what
\* dataset the store held when it started, whether any other operation
\* wrote the store meanwhile, the run it settles, whether another
\* invocation was in flight when it started, and whether the operation that
\* made the call (refreshData) first cleared a dataset the store held
EvSettled(p, result, source, error) ==
    [op |-> "loadSettled", proc |-> p, result |-> result, source |-> source,
     error |-> error, promise |-> LoadPromise(error),
     before |-> procs[p].before, clean |-> procs[p].clean, run |-> AwaitingRun(p),
     overlap |-> procs[p].overlap, cleared |-> procs[p].cleared]

\* Every store write made on behalf of p is a foreign write for the others
Touch(ps, p) ==
    [q \in Procs |-> IF q = p \/ ps[q].pc = "idle" THEN ps[q]
                     ELSE [ps[q] EXCEPT !.clean = FALSE]]

\* dataService.loadSalesData up to its first await: a valid cache entry is
\* the response when the options allow it; has() evicts an expired entry
ServiceResponse(c, useCache, forceRefresh) ==
    IF useCache /\ ~forceRefresh /\ CacheHas(c, CacheKey)
    THEN CacheGetValue(c, CacheKey)
    ELSE Null

ServiceCacheAfterCall(c, useCache, forceRefresh) ==
    IF useCache /\ ~forceRefresh THEN CacheGetMap(c, CacheKey) ELSE c

CallServiceAlwaysCached(p, attempt, ps) ==
    /\ cache' = ServiceCacheAfterCall(cache, TRUE, FALSE)
    /\ procs' = [ps EXCEPT ![p].pc = "service",
                            ![p].attempt = attempt,
                            ![p].useCache = TRUE,
                            ![p].forceRefresh = FALSE,
                            ![p].delay = 0,
                            ![p].response = ServiceResponse(cache, TRUE, FALSE)]

\* loadSalesDataFromService(attempt), up to the await
CallService(p, attempt, ps) ==
    LET useCache == (attempt = 1)
        forceRefresh == (attempt > 1)
    IN  /\ cache' = ServiceCacheAfterCall(cache, useCache, forceRefresh)
        /\ procs' = [ps EXCEPT ![p].pc = "service",
                                ![p].attempt = attempt,
                                ![p].useCache = useCache,
                                ![p].forceRefresh = forceRefresh,
                                ![p].delay = 0,
                                ![p].response =
                                    ServiceResponse(cache, useCache, forceRefresh)]

\* set(...) under the persist middleware: the new state object replaces
\* the old one and its partial state is written to localStorage
Commit(st) ==
    /\ store' = st
    /\ storage' = Persist(st)

\* another invocation is in flight
OthersInFlight(p) == \E q \in Procs : q # p /\ procs[q].pc # "idle"

loadSalesDataSingleFlight(p, st) ==
    IF (st.salesData # Null /\ isCacheValid(st)) \/ OthersInFlight(p)
    THEN /\ IF st = store THEN UNCHANGED <<store, storage, procs>>
            ELSE Commit(st) /\ procs' = Touch(procs, 0)
         /\ UNCHANGED cache
    ELSE LET st1 == Set(st, [isLoading |-> TRUE, error |-> Null,
                             isRefreshing |-> ~st.isInitialLoad])
         IN  /\ Commit(st1)
             /\ CallService(p, 1, [Touch(procs, p) EXCEPT ![p].before = st.salesData,
                                                          ![p].clean = TRUE])

loadSalesDataKeepingError(p, st) ==
    IF st.salesData # Null /\ isCacheValid(st)
    THEN /\ IF st = store THEN UNCHANGED <<store, storage, procs>>
            ELSE Commit(st) /\ procs' = Touch(procs, 0)
         /\ UNCHANGED cache
    ELSE LET st1 == Set(st, [isLoading |-> TRUE,
                             isRefreshing |-> ~st.isInitialLoad])
         IN  /\ Commit(st1)
             /\ CallService(p, 1, [Touch(procs, p) EXCEPT ![p].before = st.salesData,
                                                          ![p].clean = TRUE,
                                                          ![p].overlap = OthersInFlight(p),
                                                          ![p].cleared =
                                                              (store.salesData # Null
                                                                /\ st.salesData = Null)])

\* store.loadSalesData() called on the state st, up to its first await
loadSalesData(p, st) ==
    IF st.salesData # Null /\ isCacheValid(st)
    THEN /\ IF st = store THEN UNCHANGED <<store, storage, procs>>
            ELSE Commit(st) /\ procs' = Touch(procs, 0)
         /\ UNCHANGED cache
    ELSE LET st1 == Set(st, [isLoading |-> TRUE, error |-> Null,
                             isRefreshing |-> ~st.isInitialLoad])
         IN  /\ Commit(st1)
             /\ CallService(p, 1, [Touch(procs, p) EXCEPT ![p].before = st.salesData,
                                                          ![p].clean = TRUE,
                                                          ![p].overlap = OthersInFlight(p),
                                                          ![p].cleared =
                                                              (store.salesData # Null
                                                                /\ st.salesData = Null)])

FreeProc(p) == procs[p].pc = "idle" /\ \A q \in Procs : q < p => procs[q].pc # "idle"

LoadSalesData(p) ==
    /\ FreeProc(p)
    /\ loadSalesData(p, store)
    /\ last' = Ev("loadSalesData", p, IF procs'[p].pc = "idle" THEN "cached" ELSE "started")
    /\ UNCHANGED <<now, reloads, initVars, auxVars>>

RefreshData(p) ==
    /\ FreeProc(p)
    /\ loadSalesData(p, Set(store, [salesData |-> Null, lastUpdated |-> Null,
                                    retryCount |-> 0, error |-> Null]))
    /\ last' = Ev("refreshData", p, "started")
    /\ UNCHANGED <<now, reloads, initVars, auxVars>>

RetryLoadUngated(p) ==
    /\ FreeProc(p)
    /\ loadSalesData(p, Set(store, [error |-> Null, retryCount |-> 0]))
    /\ last' = Ev("retryLoad", p, IF canRetry(store) THEN "retried" ELSE "refused")
    /\ UNCHANGED <<now, reloads, initVars, auxVars>>

RetryLoad(p) ==
    /\ FreeProc(p)
    /\ IF ~canRetry(store)
       THEN UNCHANGED <<store, storage, cache, procs>>
       ELSE loadSalesData(p, Set(store, [error |-> Null, retryCount |-> 0]))
    /\ last' = Ev("retryLoad", p, IF canRetry(store) THEN "retried" ELSE "refused")
    /\ UNCHANGED <<now, reloads, initVars, auxVars>>

ClearDataKeepingFlags ==
    /\ Commit(Set(store, [salesData |-> Null, lastUpdated |-> Null, error |-> Null,
                          retryCount |-> 0, isInitialLoad |-> TRUE]))
    /\ procs' = Touch(procs, 0)
    /\ last' = Ev("clearData", 0, "done")
    /\ UNCHANGED <<now, cache, reloads, initVars, auxVars>>

ClearData ==
    /\ Commit(Set(store, [salesData |-> Null, lastUpdated |-> Null, error |-> Null,
                          isLoading |-> FALSE, retryCount |-> 0,
                          isInitialLoad |-> TRUE, isRefreshing |-> FALSE]))
    /\ procs' = Touch(procs, 0)
    /\ last' = Ev("clearData", 0, "done")
    /\ UNCHANGED <<now, cache, reloads, initVars, auxVars>>

\* the error records setError can be handed
DataErrors == {createDataError(createErrorFromType(errorType), 1) : errorType \in ErrorTypes}

\* setError(error) called from outside the store, with an error or null
SetError ==
    /\ \E error \in DataErrors \cup {Null} : Commit(setError(store, error))
    /\ procs' = Touch(procs, 0)
    /\ last' = Ev("setError", 0, "done")
    /\ UNCHANGED <<now, cache, reloads, initVars, auxVars>>

\* clearAllErrors: setError(null)
DismissError ==
    /\ store.error # Null
    /\ Commit(setError(store, Null))
    /\ procs' = Touch(procs, 0)
    /\ last' = Ev("setError", 0, "done")
    /\ UNCHANGED <<now, cache, reloads, initVars, auxVars>>

----------------------------------------------------------------------------
(* useGlobalErrorState and the GlobalErrorHandler's notification *)

\* store.retryLoad() called on the state st, up to its first await
retryLoad(p, st) ==
    IF ~canRetry(st)
    THEN /\ IF st = store THEN UNCHANGED <<store, storage, procs>>
            ELSE Commit(st) /\ procs' = Touch(procs, 0)
         /\ UNCHANGED cache
    ELSE loadSalesData(p, Set(st, [error |-> Null, retryCount |-> 0]))

\* retryFailedOperations(): getState(), then retryLoad() if canRetry()
retryFailedOperations(p, st) ==
    IF canRetry(st)
    THEN retryLoad(p, st)
    ELSE /\ IF st = store THEN UNCHANGED <<store, storage, procs>>
            ELSE Commit(st) /\ procs' = Touch(procs, 0)
         /\ UNCHANGED cache

\* useDataInitialization: isInitialized
isInitialized(st) == st.salesData # Null /\ ~st.isInitialLoad

\* hasAnyError: the notification with its Retry and Dismiss buttons is shown
hasAnyError == store.error # Null

\* the Retry button: clearAllErrors() and then retryFailedOperations(),
\* which runs up to its first await in the same task
HandleRetryAll(p) ==
    /\ hasAnyError
    /\ FreeProc(p)
    /\ retryFailedOperations(p, setError(store, Null))
    /\ last' = Ev("handleRetryAll", p, IF procs'[p].pc = "idle" THEN "refused" ELSE "retried")
    /\ UNCHANGED <<now, reloads, initVars, auxVars>>

\* the window's online event: retryFailedOperations() on the current state
HandleOnline(p) ==
    /\ FreeProc(p)
    /\ retryFailedOperations(p, store)
    /\ last' = Ev("handleOnline", p, IF procs'[p].pc = "idle" THEN "refused" ELSE "retried")
    /\ UNCHANGED <<now, reloads, initVars, auxVars>>

----------------------------------------------------------------------------
(* DataInitializer *)

\* preload: options.preloadData. History fields: cold (the run started with
\* no persisted record, an empty DataCache and initialized = false) and
\* resetSeen (reset() was called while the run was in flight)
NoRun == [pc |-> "none", load |-> 0, timer |-> FALSE, result |-> Null,
          preload |-> FALSE, cold |-> FALSE, resetSeen |-> FALSE]
\* History field: sawRun, the run in flight (and not reset) when the call
\* was made, or 0
IdleCaller == [pc |-> "idle", run |-> 0, owner |-> FALSE, result |-> Null, sawRun |-> 0]

InFlight(r) == runs[r].pc \in {"pending", "resolved"}

RunInFlight ==
    IF \E r \in Runs : InFlight(r) /\ ~runs[r].resetSeen
    THEN CHOOSE r \in Runs : InFlight(r) /\ ~runs[r].resetSeen
    ELSE 0

ColdStart == storage = Null /\ cache[CacheKey] = Null /\ ~initialized

\* dataService.getCacheStatus(): reads the entry through getMetadata
getCacheStatus(c, key) ==
    LET metadata == CacheGetMetadata(c, key)
    IN  IF metadata = Null THEN [cached |-> FALSE]
        ELSE [cached |-> TRUE, timestamp |-> metadata.timestamp,
              expiresAt |-> metadata.expiresAt, age |-> now - metadata.timestamp]

\* the result object built by run r (object identity: the run); its
\* loadTime (Date.now() - startTime) and storageInfo are left out
RunResult(r, success, fromCache, error) ==
    [kind |-> "result", object |-> r, success |-> success, fromCache |-> fromCache,
     error |-> error]

\* initialize(), lines 84-88, for the call that started run r, and the
\* settling of every call that was handed r's promise
Settle(r, result, rs) ==
    /\ runs' = [rs EXCEPT ![r].pc = "done", ![r].result = result]
    /\ callers' = [c \in Callers |->
                     IF callers[c].pc = "awaiting" /\ callers[c].run = r
                     THEN [callers[c] EXCEPT !.pc = "returned", !.result = result]
                     ELSE callers[c]]
    /\ initialized' = result.success
    /\ initializationPromise' = 0

\* loadSalesData()'s promise resolves: a run racing it goes on from line
\* 138; a run that lost the race to its timeout only lets go of the promise
LoadPromiseResolves(p) ==
    IF AwaitingRun(p) # 0
    THEN LET r == AwaitingRun(p)
             cacheStatus == getCacheStatus(cache', CacheKey)
         IN  Settle(r, RunResult(r, TRUE, cacheStatus.cached, Null), runs)
    ELSE /\ runs' = [r \in Runs |->
                        IF runs[r].load = p /\ ~runs[r].result.success
                        THEN [runs[r] EXCEPT !.load = 0] ELSE runs[r]]
         /\ UNCHANGED <<initialized, initializationPromise, callers>>

\* The rest of dataService.loadSalesData after the simulated delay, and the
\* continuation of attemptLoad(attempt) up to its next await or to the end
\* of loadSalesData (the finally block)
AttemptSucceedsLeavingFlags(p, data, source) ==
    /\ Commit(setSalesData(store, data))
    /\ procs' = [Touch(procs, p) EXCEPT ![p] = IdleProc]
    /\ LoadPromiseResolves(p)
    /\ last' = EvSettled(p, "loaded", source, Null)

AttemptSucceeds(p, data, source) ==
    LET st1 == setSalesData(store, data)
        st2 == Set(st1, [isLoading |-> FALSE, isRefreshing |-> FALSE])
    IN  /\ Commit(st2)
        /\ procs' = [Touch(procs, p) EXCEPT ![p] = IdleProc]
        /\ LoadPromiseResolves(p)
        /\ last' = EvSettled(p, "loaded", source, Null)

AttemptFailsCountingLast(p, error) ==
    LET attempt == procs[p].attempt
        dataError == createDataError(error, attempt)
        shouldRetry == /\ attempt < store.maxRetries
                       /\ error.kind = "DataServiceError"
                       /\ error.retryable
    IN  IF shouldRetry
        THEN /\ Commit(Set(store, [retryCount |-> attempt]))
             /\ procs' = [Touch(procs, p) EXCEPT
                             ![p].pc = "backoff",
                             ![p].delay = store.retryDelay * Pow(2, attempt - 1)]
             /\ UNCHANGED initVars
             /\ last' = [op |-> "attemptFailed", proc |-> p, result |-> "backoff",
                         error |-> error]
        ELSE /\ Commit(Set(setError(store, dataError),
                           [retryCount |-> attempt,
                            isLoading |-> FALSE, isRefreshing |-> FALSE]))
             /\ procs' = [Touch(procs, p) EXCEPT ![p] = IdleProc]
             /\ LoadPromiseResolves(p)
             /\ last' = EvSettled(p, "errored", "api", error)

AttemptFails(p, error) ==
    LET attempt == procs[p].attempt
        dataError == createDataError(error, attempt)
        shouldRetry == /\ attempt < store.maxRetries
                       /\ error.kind = "DataServiceError"
                       /\ error.retryable
    IN  IF shouldRetry
        THEN /\ Commit(Set(store, [retryCount |-> attempt]))
             /\ procs' = [Touch(procs, p) EXCEPT
                             ![p].pc = "backoff",
                             ![p].delay = store.retryDelay * Pow(2, attempt - 1)]
             /\ UNCHANGED initVars
             /\ last' = [op |-> "attemptFailed", proc |-> p, result |-> "backoff",
                         error |-> error]
        ELSE /\ Commit(Set(setError(store, dataError),
                           [isLoading |-> FALSE, isRefreshing |-> FALSE]))
             /\ procs' = [Touch(procs, p) EXCEPT ![p] = IdleProc]
             /\ LoadPromiseResolves(p)
             /\ last' = EvSettled(p, "errored", "api", error)

\* A call answered from the DataCache awaits no timer: its promise is
\* already resolved and the continuation is a microtask, which runs before
\* any timer callback, any page load and before the clock moves on
MicrotaskPending == \E p \in Procs : procs[p].pc = "service" /\ procs[p].response # Null

\* the response is the cache entry read when the call was made
ServiceReturnsCached(p) ==
    /\ procs[p].pc = "service"
    /\ procs[p].response # Null
    /\ UNCHANGED <<now, cache, reloads, auxVars>>
    /\ AttemptSucceeds(p, procs[p].response, "cache")

\* shouldSimulateError() = null: sampleData is validated, cached when
\* useCache, and returned
ServiceReturnsData(p) ==
    /\ ~MicrotaskPending
    /\ procs[p].pc = "service"
    /\ procs[p].response = Null
    /\ LET salesData == Dataset(now)
       IN  /\ cache' = IF procs[p].useCache
                        THEN CacheSet(cache, CacheKey, salesData, CACHE_DURATION_MS)
                        ELSE cache
           /\ AttemptSucceeds(p, salesData, "api")
    /\ UNCHANGED <<now, reloads, auxVars>>

ServiceThrows(p) ==
    /\ ~MicrotaskPending
    /\ procs[p].pc = "service"
    /\ procs[p].response = Null
    /\ UNCHANGED <<now, cache, reloads, auxVars>>
    /\ \E errorType \in ErrorTypes : AttemptFails(p, createErrorFromType(errorType))

\* the backoff timer fires: attemptLoad(attempt + 1)
BackoffFires(p) ==
    /\ ~MicrotaskPending
    /\ procs[p].pc = "backoff"
    /\ CallService(p, procs[p].attempt + 1, procs)
    /\ last' = Ev("attemptLoad", p, "started")
    /\ UNCHANGED <<now, store, storage, reloads, initVars, auxVars>>

FreeCaller(c) ==
    callers[c].pc = "idle" /\ \A d \in Callers : d < c => callers[d].pc # "idle"

FreeRun(r) == runs[r].pc = "none" /\ \A q \in Runs : q < r => runs[q].pc # "none"

InitOptions == [preloadData : BOOLEAN, timeout : {0, INITIAL_LOAD_TIMEOUT}]

\* _performInitialization(options) up to its first await (run r, using the
\* invocation slot p when it loads). cleanupExpiredItems() and
\* getStorageInfo() do not touch the sales-store record and do not throw.
performInitialization(r, p, options) ==
    IF options.preloadData
    THEN IF store.salesData # Null /\ isCacheValid(store)
         THEN /\ runs' = [runs EXCEPT ![r] =
                     [pc |-> "resolved", load |-> 0, timer |-> FALSE,
                      result |-> RunResult(r, TRUE, TRUE, Null),
                      preload |-> TRUE, cold |-> ColdStart, resetSeen |-> FALSE]]
              /\ UNCHANGED <<store, storage, cache, procs>>
         ELSE /\ FreeProc(p)
              /\ loadSalesData(p, store)
              /\ runs' = [runs EXCEPT ![r] =
                     [pc |-> "pending", load |-> p, timer |-> (options.timeout > 0),
                      result |-> Null,
                      preload |-> TRUE, cold |-> ColdStart, resetSeen |-> FALSE]]
    ELSE /\ runs' = [runs EXCEPT ![r] =
                [pc |-> "resolved", load |-> 0, timer |-> FALSE,
                 result |-> RunResult(r, TRUE, FALSE, Null),
                 preload |-> FALSE, cold |-> ColdStart, resetSeen |-> FALSE]]
         /\ UNCHANGED <<store, storage, cache, procs>>

InProgressIgnored == FALSE

\* initialize(), line 57: an initialization is already in progress
InProgress == initializationPromise # 0

\* initialize(options), up to its await
Initialize(c) ==
    /\ FreeCaller(c)
    /\ IF InProgress
       THEN /\ callers' = [callers EXCEPT ![c] =
                   [pc |-> "awaiting", run |-> initializationPromise, owner |-> FALSE,
                    result |-> Null, sawRun |-> RunInFlight]]
            /\ last' = Ev("initialize", c, "joined")
            /\ UNCHANGED <<store, storage, cache, procs, runs, initialized,
                           initializationPromise, auxVars>>
       ELSE IF initialized
       THEN /\ callers' = [callers EXCEPT ![c] =
                   [pc |-> "returned", run |-> 0, owner |-> FALSE,
                    result |-> [kind |-> "result", object |-> <<"call", c>>,
                                success |-> TRUE, fromCache |-> TRUE,
                                loadTime |-> 0, error |-> Null],
                    sawRun |-> RunInFlight]]
            /\ last' = Ev("initialize", c, "already")
            /\ UNCHANGED <<store, storage, cache, procs, runs, initialized,
                           initializationPromise, auxVars>>
       ELSE \E r \in Runs, p \in Procs, options \in InitOptions :
            /\ FreeRun(r)
            /\ performInitialization(r, p, options)
            /\ initializationPromise' = r
            /\ callers' = [callers EXCEPT ![c] =
                   [pc |-> "awaiting", run |-> r, owner |-> TRUE, result |-> Null,
                    sawRun |-> RunInFlight]]
            /\ last' = Ev("initialize", c, "started")
            /\ UNCHANGED initialized
    /\ UNCHANGED <<now, reloads, auxVars>>

\* the promise of a run that finished without awaiting is settled
RunResolves(r) ==
    /\ runs[r].pc = "resolved"
    /\ Settle(r, runs[r].result, runs)
    /\ last' = [op |-> "runSettled", proc |-> 0, result |-> "resolved", run |-> r]
    /\ UNCHANGED <<now, store, storage, cache, procs, reloads, auxVars>>

TimeoutFiresCancellingLoad(r) ==
    /\ ~MicrotaskPending
    /\ runs[r].pc = "pending"
    /\ runs[r].timer
    /\ Settle(r, RunResult(r, FALSE, FALSE, StringOf("Data loading timeout")), runs)
    /\ procs' = [procs EXCEPT ![runs[r].load] = IdleProc]
    /\ last' = [op |-> "runSettled", proc |-> 0, result |-> "timeout", run |-> r]
    /\ UNCHANGED <<now, store, storage, cache, reloads, auxVars>>

\* the timeout timer wins the race: the catch block builds the result
TimeoutFires(r) ==
    /\ ~MicrotaskPending
    /\ runs[r].pc = "pending"
    /\ runs[r].timer
    /\ Settle(r, RunResult(r, FALSE, FALSE, StringOf("Data loading timeout")), runs)
    /\ last' = [op |-> "runSettled", proc |-> 0, result |-> "timeout", run |-> r]
    /\ UNCHANGED <<now, store, storage, cache, procs, reloads, auxVars>>

Reset ==
    /\ initialized' = FALSE
    /\ initializationPromise' = 0
    /\ runs' = [r \in Runs |-> IF InFlight(r) THEN [runs[r] EXCEPT !.resetSeen = TRUE]
                                ELSE runs[r]]
    /\ last' = Ev("reset", 0, "done")
    /\ UNCHANGED <<now, store, storage, cache, procs, reloads, callers, auxVars>>

Tick ==
    /\ ~MicrotaskPending
    /\ now + TickMs <= MaxTime
    /\ now' = now + TickMs
    /\ last' = Ev("tick", 0, "done")
    /\ UNCHANGED <<store, storage, cache, procs, reloads, initVars, auxVars>>

\* A page load: every module is evaluated anew (the store is created and
\* hydrated from localStorage, the DataCache is empty, nothing is in flight).
\* The event records what the store was doing when the page was left.
Reload ==
    /\ ~MicrotaskPending
    /\ reloads < MaxReloads
    /\ reloads' = reloads + 1
    /\ store' = Hydrate(storage)
    /\ cache' = [k \in Keys |-> Null]
    /\ procs' = [p \in Procs |-> IdleProc]
    /\ initialized' = FALSE
    /\ initializationPromise' = 0
    /\ runs' = [r \in Runs |-> NoRun]
    /\ callers' = [c \in Callers |-> IdleCaller]
    /\ last' = Ev("reload", 0, IF store.error # Null THEN "errored"
                               ELSE IF store.isLoading THEN "loading" ELSE "done")
    /\ UNCHANGED <<now, storage, auxVars>>

Init ==
    /\ now = 0
    /\ storage = Null
    /\ store = Hydrate(storage)
    /\ cache = [k \in Keys |-> Null]
    /\ procs = [p \in Procs |-> IdleProc]
    /\ reloads = 0
    /\ initialized = FALSE
    /\ initializationPromise = 0
    /\ runs = [r \in Runs |-> NoRun]
    /\ callers = [c \in Callers |-> IdleCaller]
    /\ wr = IdleRetry
    /\ written = [k \in Keys |-> Null]
    /\ ret = Null
    /\ vd = NoValidation
    /\ last = Ev("init", 0, "done")

Next ==
    \/ \E p \in Procs : LoadSalesData(p)
    \/ \E p \in Procs : RefreshData(p)
    \/ \E p \in Procs : RetryLoad(p)
    \/ ClearData
    \/ DismissError
    \/ \E p \in Procs : ServiceReturnsCached(p)
    \/ \E p \in Procs : ServiceReturnsData(p)
    \/ \E p \in Procs : ServiceThrows(p)
    \/ \E p \in Procs : BackoffFires(p)
    \/ Tick
    \/ Reload

Spec == Init /\ [][Next]_vars

\* The initializer on top of the store
NextInit ==
    \/ \E c \in Callers : Initialize(c)
    \/ \E r \in Runs : RunResolves(r)
    \/ \E r \in Runs : TimeoutFires(r)
    \/ Reset
    \/ ClearData
    \/ \E p \in Procs : ServiceReturnsCached(p)
    \/ \E p \in Procs : ServiceReturnsData(p)
    \/ \E p \in Procs : ServiceThrows(p)
    \/ \E p \in Procs : BackoffFires(p)
    \/ Tick

SpecInit == Init /\ [][NextInit]_vars

\* The event loop runs every callback that is due: each simulated remote
\* call answers and each backoff timer fires. An invocation waits for one
\* of the two at a time. A timer callback waits while resolved promises
\* are pending, and runs once they are drained however often new ones come.
ServiceAnswers(p) ==
    ServiceReturnsCached(p) \/ ServiceReturnsData(p) \/ ServiceThrows(p)

Callback(p) == ServiceAnswers(p) \/ BackoffFires(p)

Fairness == \A p \in Procs : SF_vars(Callback(p))

\* An initialization racing its load against the timeout
NextTimeout ==
    \/ \E c \in Callers : Initialize(c)
    \/ \E r \in Runs : RunResolves(r)
    \/ \E r \in Runs : TimeoutFires(r)
    \/ ClearData
    \/ \E p \in Procs : ServiceReturnsCached(p)
    \/ \E p \in Procs : ServiceReturnsData(p)
    \/ \E p \in Procs : ServiceThrows(p)
    \/ \E p \in Procs : BackoffFires(p)

SpecTimeout == Init /\ [][NextTimeout]_vars /\ Fairness

\* The store's operations with every due callback run
NextLoads ==
    \/ \E p \in Procs : LoadSalesData(p)
    \/ \E p \in Procs : RefreshData(p)
    \/ \E p \in Procs : RetryLoad(p)
    \/ ClearData
    \/ DismissError
    \/ \E p \in Procs : ServiceReturnsCached(p)
    \/ \E p \in Procs : ServiceReturnsData(p)
    \/ \E p \in Procs : ServiceThrows(p)
    \/ \E p \in Procs : BackoffFires(p)

SpecLoads == Init /\ [][NextLoads]_vars /\ Fairness

\* The error notification's buttons and the online event on top of the store
NextNotification ==
    \/ \E p \in Procs : LoadSalesData(p)
    \/ \E p \in Procs : RefreshData(p)
    \/ \E p \in Procs : HandleRetryAll(p)
    \/ \E p \in Procs : HandleOnline(p)
    \/ DismissError
    \/ \E p \in Procs : ServiceReturnsCached(p)
    \/ \E p \in Procs : ServiceReturnsData(p)
    \/ \E p \in Procs : ServiceThrows(p)
    \/ \E p \in Procs : BackoffFires(p)

SpecNotification == Init /\ [][NextNotification]_vars

\* The store's operations and setError called in any order
NextFlags ==
    \/ \E p \in Procs : LoadSalesData(p)
    \/ \E p \in Procs : RefreshData(p)
    \/ \E p \in Procs : RetryLoad(p)
    \/ ClearData
    \/ SetError
    \/ \E p \in Procs : ServiceReturnsCached(p)
    \/ \E p \in Procs : ServiceReturnsData(p)
    \/ \E p \in Procs : ServiceThrows(p)
    \/ \E p \in Procs : BackoffFires(p)

SpecFlags == Init /\ [][NextFlags]_vars

\* withRetry on its own
SpecRetry == Init /\ [][NextRetry]_vars

----------------------------------------------------------------------------
(* DataCache on its own: set / get / has / clear with any key, value, ttl *)

Values == {Dataset(0), Dataset(1)}
Ttls == {TickMs, CACHE_DURATION_MS}

CacheFrame == UNCHANGED <<now, store, storage, procs, reloads, initVars, wr, vd>>

CacheSetOp ==
    /\ \E key \in Keys, data \in Values, ttlMs \in Ttls :
          /\ cache' = CacheSet(cache, key, data, ttlMs)
          /\ written' = [written EXCEPT ![key] =
                            [value |-> data, at |-> now, ttl |-> ttlMs]]
          /\ ret' = [op |-> "set", key |-> key, at |-> now, value |-> Null]
    /\ last' = Ev("cache.set", 0, "done")
    /\ CacheFrame

CacheGetOp ==
    /\ \E key \in Keys :
          /\ ret' = [op |-> "get", key |-> key, at |-> now,
                     value |-> CacheGetValue(cache, key)]
          /\ cache' = CacheGetMap(cache, key)
    /\ last' = Ev("cache.get", 0, "done")
    /\ UNCHANGED written
    /\ CacheFrame

CacheHasOp ==
    /\ \E key \in Keys :
          /\ ret' = [op |-> "has", key |-> key, at |-> now,
                     value |-> CacheHas(cache, key)]
          /\ cache' = CacheGetMap(cache, key)
    /\ last' = Ev("cache.has", 0, "done")
    /\ UNCHANGED written
    /\ CacheFrame

CacheClearOp ==
    /\ cache' = CacheClear(cache)
    /\ written' = [k \in Keys |-> Null]
    /\ ret' = [op |-> "clear", key |-> CacheKey, at |-> now, value |-> Null]
    /\ last' = Ev("cache.clear", 0, "done")
    /\ CacheFrame

\* dataService.getCacheStatus(key)
CacheStatusOp ==
    /\ \E key \in Keys :
          ret' = [op |-> "status", key |-> key, at |-> now,
                  value |-> getCacheStatus(cache, key)]
    /\ last' = Ev("getCacheStatus", 0, "done")
    /\ UNCHANGED <<cache, written>>
    /\ CacheFrame

NextCache ==
    \/ CacheStatusOp
    \/ CacheSetOp
    \/ CacheGetOp
    \/ CacheHasOp
    \/ CacheClearOp
    \/ Tick

SpecCache == Init /\ [][NextCache]_vars

----------------------------------------------------------------------------
(* The store constructed over any persisted sales-store record *)

Times == {t \in 0..MaxTime : t % TickMs = 0}

PersistedRecords ==
    [salesData : {Null, Dataset(0)},
     lastUpdated : {Null} \cup {ToJSON(DateOf(t)) : t \in Times},
     cacheExpiry : {CACHE_EXPIRY_MS, TickMs},
     maxRetries : {MAX_RETRIES},
     retryDelay : {BASE_RETRY_DELAY_MS}]

InitHydrate ==
    /\ now \in Times
    /\ storage \in PersistedRecords \cup {Null}
    /\ store = Hydrate(storage)
    /\ cache = [k \in Keys |-> Null]
    /\ procs = [p \in Procs |-> IdleProc]
    /\ reloads = 0
    /\ initialized = FALSE
    /\ initializationPromise = 0
    /\ runs = [r \in Runs |-> NoRun]
    /\ callers = [c \in Callers |-> IdleCaller]
    /\ wr = IdleRetry
    /\ written = [k \in Keys |-> Null]
    /\ ret = Null
    /\ vd = NoValidation
    /\ last = Ev("init", 0, "done")

NextHydrate ==
    \/ Tick
    \/ Reload
    \/ ClearData
    \/ \E p \in Procs : LoadSalesData(p)
    \/ \E p \in Procs : ServiceReturnsData(p)

SpecHydrate == InitHydrate /\ [][NextHydrate]_vars

----------------------------------------------------------------------------
(* The validation step of DataService.loadSalesData over any raw dataset *)

ArraysOf(S, n) == {ArrayOf(items) : items \in UNION {[1..k -> S] : k \in 0..n}}

Names == {TextValue("name"), TextValue("empty"), NumberValue}
Sales == {NumberValue, Null, TextValue("text")}
Labels == {TextValue("YYYY-MM-DD"), TextValue("Week N"), TextValue("text"), NumberValue}

Categories == [name : Names, sales : ArraysOf(Sales, MaxLen) \cup {NotAnArray}]
Brands == [name : Names, categories : ArraysOf(Categories, 1) \cup {NotAnArray}]

\* what rawData can be: an object with brands and dateRange of any of
\* these shapes (one brand, one category at most), null, or no object
RawData ==
    [kind : {"object"},
     brands : ArraysOf(Brands, 1) \cup {NotAnArray},
     dateRange : ArraysOf(Labels, MaxLen) \cup {NotAnArray}]
      \cup {Null, NumberValue}

InitValidate ==
    /\ now = 0
    /\ storage = Null
    /\ store = Hydrate(storage)
    /\ cache = [k \in Keys |-> Null]
    /\ procs = [p \in Procs |-> IdleProc]
    /\ reloads = 0
    /\ initialized = FALSE
    /\ initializationPromise = 0
    /\ runs = [r \in Runs |-> NoRun]
    /\ callers = [c \in Callers |-> IdleCaller]
    /\ wr = IdleRetry
    /\ written = [k \in Keys |-> Null]
    /\ ret = Null
    /\ vd \in {[pc |-> "raw", data |-> data, error |-> Null] : data \in RawData}
    /\ last = Ev("init", 0, "done")

\* DataService.loadSalesData, lines 297-306: rawData is validated; an
\* invalid one makes the call throw a non-retryable VALIDATION_ERROR
ValidateRawData ==
    /\ vd.pc = "raw"
    /\ vd' = IF validateSalesData(vd.data)
             THEN [vd EXCEPT !.pc = "accepted"]
             ELSE [vd EXCEPT !.pc = "threw",
                             !.error = createErrorFromType("VALIDATION_ERROR")]
    /\ last' = Ev("validate", 0, IF validateSalesData(vd.data) THEN "accepted" ELSE "threw")
    /\ UNCHANGED <<now, store, storage, cache, procs, reloads, initVars, wr, written, ret>>

NextValidate == ValidateRawData

SpecValidate == InitValidate /\ [][NextValidate]_vars

----------------------------------------------------------------------------
(* Properties *)

\* C1: error never clears data. No step of a loadSalesData() call that
\* ends in failure writes salesData (its start, a failed attempt, a new
\* attempt, the failure that settles it), and the settling step leaves
\* error non-null; so when a call that started with a dataset in the store
\* (it passed the cache-validity check) ends with every attempt failed,
\* salesData is the dataset held before the call unless another operation
\* wrote the store while the call was in flight.
ErrorNeverClearsData ==
    /\ []((last.op = "loadSettled" /\ last.result = "errored" /\ last.before # Null)
            => /\ store.error # Null
               /\ last.clean => store.salesData = last.before)
    /\ [][(\/ last'.op \in {"loadSalesData", "attemptFailed", "attemptLoad"}
           \/ last'.op = "loadSettled" /\ last'.result = "errored")
             => store'.salesData = store.salesData]_vars

\* retries exhausted with a dataset held, nothing else interfering
ErrorNeverClearsDataWitness ==
    /\ last.op = "loadSettled" /\ last.result = "errored"
    /\ last.before # Null /\ last.clean
    /\ store.error.details.attempt = store.maxRetries
    /\ store.salesData = last.before

\* C2: cache-validity short-circuit. A loadSalesData() call made while
\* salesData and lastUpdated are set and now - lastUpdated < cacheExpiry
\* changes no store field, does not touch the DataCache and starts no
\* service call.
CacheValidShortCircuit ==
    [][(/\ last'.op = "loadSalesData"
        /\ store.salesData # Null
        /\ store.lastUpdated # Null
        /\ now - store.lastUpdated.time < store.cacheExpiry)
          => UNCHANGED <<store, storage, cache, procs>>]_vars

CacheValidShortCircuitWitness ==
    /\ last.op = "loadSalesData" /\ last.result = "cached"
    /\ store.salesData # Null /\ store.lastUpdated # Null
    /\ now - store.lastUpdated.time < store.cacheExpiry
    /\ \A p \in Procs : procs[p].pc = "idle"

\* C3: single-flight initialization. An initialize() call made while a run
\* is in flight (and not reset) starts no run of its own: it is handed that
\* run, and all calls handed a run get that run's one result object; at
\* most one such run is in flight and a run starts at most one load.
SameRun(c, d) ==
    (callers[c].pc = "returned" /\ callers[d].pc = "returned"
        /\ callers[c].run # 0 /\ callers[c].run = callers[d].run)
      => /\ callers[c].result = callers[d].result
         /\ callers[c].result.object = callers[c].run

SingleFlight ==
    /\ \A c \in Callers :
          (callers[c].pc # "idle" /\ callers[c].sawRun # 0)
            => callers[c].run = callers[c].sawRun /\ ~callers[c].owner
    /\ \A c, d \in Callers : SameRun(c, d)
    /\ Cardinality({r \in Runs : InFlight(r) /\ ~runs[r].resetSeen}) <= 1
    /\ \A r \in Runs :
          Cardinality({c \in Callers : callers[c].run = r /\ callers[c].owner}) <= 1

\* two calls, the second made during the first one's load, both returned
SingleFlightWitness ==
    /\ callers[1].pc = "returned" /\ callers[2].pc = "returned"
    /\ callers[1].owner /\ callers[2].sawRun = callers[1].run
    /\ callers[1].run = callers[2].run
    /\ runs[callers[1].run].load # 0
    /\ callers[1].result = callers[2].result

\* C4: retry bound. When withRetry rejects after the operation threw a
\* retryable error on every call, the operation was invoked exactly
\* maxRetries + 1 times, with maxRetries waits in between, and the
\* rejection is the error thrown by the last invocation.
Retryable(e) == ~(e.error.kind = "DataServiceError" /\ ~e.error.retryable)

RetryBound ==
    (/\ wr.pc \in {"rejected", "resolved"}
     /\ Len(wr.thrown) = wr.calls
     /\ \A k \in 1..Len(wr.thrown) : Retryable(wr.thrown[k]))
       => /\ wr.pc = "rejected"
          /\ wr.calls = wr.maxRetries + 1
          /\ Len(wr.waits) = wr.maxRetries
          /\ wr.outcome = wr.thrown[wr.calls]
          /\ wr.outcome.call = wr.calls

RetryBoundWitness ==
    /\ wr.pc = "rejected"
    /\ wr.maxRetries = MAX_RETRIES
    /\ wr.calls = MAX_RETRIES + 1
    /\ \A k \in 1..Len(wr.thrown) : Retryable(wr.thrown[k])
    /\ wr.outcome.call = MAX_RETRIES + 1

\* C5: non-retryable short-circuit. If the k-th invocation throws a
\* DataServiceError with retryable = false, withRetry is rejected with
\* that error, the operation is never invoked again and no wait follows
\* the k - 1 waits made before it.
NonRetryableShortCircuit ==
    \A k \in 1..Len(wr.thrown) :
        ~Retryable(wr.thrown[k])
          => /\ wr.pc = "rejected"
             /\ wr.outcome = wr.thrown[k]
             /\ wr.calls = k
             /\ Len(wr.waits) = k - 1

NonRetryableShortCircuitWitness ==
    /\ wr.maxRetries > 0
    /\ wr.calls = 1 /\ Len(wr.thrown) = 1
    /\ ~Retryable(wr.thrown[1])
    /\ wr.pc = "rejected" /\ wr.waits = <<>>

\* C6: cache TTL. A get(k) made at time t returns the value of the last
\* set(k, v, ttl) when t <= setTime + ttl; otherwise (expired, cleared or
\* never set) it returns null and leaves no entry for k; has(k) is true
\* exactly in the first case.
Live(key, t) ==
    written[key] # Null /\ t <= written[key].at + written[key].ttl

CacheTtl ==
    (ret # Null /\ ret.op \in {"get", "has"})
      => /\ ret.op = "get" =>
              IF Live(ret.key, ret.at)
              THEN ret.value = written[ret.key].value
              ELSE ret.value = Null /\ cache[ret.key] = Null
         /\ ret.op = "has" =>
              /\ ret.value = Live(ret.key, ret.at)
              /\ ~ret.value => cache[ret.key] = Null

\* a get on the very instant of expiry still returns the value
CacheTtlWitness ==
    /\ ret # Null /\ ret.op = "get"
    /\ written[ret.key] # Null
    /\ ret.at = written[ret.key].at + written[ret.key].ttl
    /\ ret.value = written[ret.key].value

\* C7: clear resets fully. Every clearData() step, from any state, leaves
\* salesData, lastUpdated and error null, retryCount 0, isInitialLoad true,
\* isLoading and isRefreshing false, and cacheExpiry, maxRetries and
\* retryDelay as they were.
ClearResetsFully ==
    [][last'.op = "clearData"
        => /\ store'.salesData = Null /\ store'.lastUpdated = Null
           /\ store'.error = Null /\ store'.retryCount = 0
           /\ store'.isInitialLoad /\ ~store'.isLoading /\ ~store'.isRefreshing
           /\ store'.cacheExpiry = store.cacheExpiry
           /\ store'.maxRetries = store.maxRetries
           /\ store'.retryDelay = store.retryDelay]_vars

\* cleared in the middle of a load that had already failed once
ClearResetsFullyWitness ==
    /\ last.op = "clearData"
    /\ store.salesData = Null /\ store.retryCount = 0 /\ ~store.isLoading
    /\ \E p \in Procs : procs[p].pc = "backoff" /\ procs[p].before # Null

\* C8: initialization success implies data. At the step that settles a
\* run started with preloadData = true with success = true, the store
\* holds a dataset.
InitSuccessImpliesData ==
    (/\ last.op \in {"loadSettled", "runSettled"}
     /\ last.run # 0
     /\ runs[last.run].preload
     /\ runs[last.run].result.success)
       => store.salesData # Null

\* C9: cold-start fromCache flag. When a run started cold (no persisted
\* record, empty DataCache, not initialized) is settled by a load that got
\* its dataset through the api path, its result has fromCache = false.
ColdStartNotFromCache ==
    (/\ last.op = "loadSettled"
     /\ last.run # 0
     /\ last.result = "loaded" /\ last.source = "api"
     /\ runs[last.run].cold)
       => ~runs[last.run].result.fromCache

\* C10: persisted rehydration. Right after the store is constructed over
\* a record whose lastUpdated is the text of instant t, lastUpdated is the
\* Date of t, isCacheValid() is true iff the record has a dataset and
\* now - t < cacheExpiry, and getCacheAge() is now - t whether lastUpdated
\* is held as the Date or as the text.
HydrationRestoresTimestamp ==
    (/\ last.op \in {"init", "reload"}
     /\ storage # Null
     /\ storage.lastUpdated.kind = "string")
       => \E t \in Times :
            /\ storage.lastUpdated = ToJSON(DateOf(t))
            /\ store.lastUpdated = DateOf(t)
            /\ store.salesData = storage.salesData
            /\ isCacheValid(store) <=>
                 (storage.salesData # Null /\ now - t < storage.cacheExpiry)
            /\ getCacheAge(store) = now - t
            /\ getCacheAge([store EXCEPT !.lastUpdated = storage.lastUpdated]) = now - t

\* a page load over a record written earlier, still fresh
HydrationRestoresTimestampWitness ==
    /\ last.op = "reload"
    /\ storage # Null /\ storage.lastUpdated.kind = "string"
    /\ store.lastUpdated.kind = "Date" /\ store.lastUpdated.time > 0
    /\ store.salesData # Null
    /\ now > store.lastUpdated.time
    /\ isCacheValid(store)

\* the sub-series of a dataset whose arrays are all arrays
Shaped(data) ==
    /\ data # Null /\ data.kind = "object"
    /\ IsArray(data.brands) /\ IsArray(data.dateRange)
    /\ \A i \in 1..Len(data.brands.items) :
          /\ IsArray(data.brands.items[i].categories)
          /\ \A j \in 1..Len(data.brands.items[i].categories.items) :
                IsArray(data.brands.items[i].categories.items[j].sales)

SubSeries(data) ==
    UNION {{data.brands.items[i].categories.items[j].sales.items :
                j \in 1..Len(data.brands.items[i].categories.items)} :
           i \in 1..Len(data.brands.items)}

AlignedSeries(data) ==
    \A sales \in SubSeries(data) : Len(sales) = Len(data.dateRange.items)

NumericOrNull(data) ==
    \A sales \in SubSeries(data) : \A k \in 1..Len(sales) : IsSale(sales[k])

NamedAndLabelled(data) ==
    /\ \A i \in 1..Len(data.dateRange.items) : IsDateLabel(data.dateRange.items[i])
    /\ \A i \in 1..Len(data.brands.items) :
          /\ IsName(data.brands.items[i].name)
          /\ \A j \in 1..Len(data.brands.items[i].categories.items) :
                IsName(data.brands.items[i].categories.items[j].name)

\* C11: validation. The validation step accepts every well-formed dataset
\* (names and labels in order, every sub-series as long as the period
\* labels, every value a number or null) and throws a non-retryable
\* VALIDATION_ERROR for every dataset with a sub-series of another length
\* or with a value that is neither a number nor null.
ValidatorRejectsMalformed ==
    (vd.pc \in {"accepted", "threw"} /\ Shaped(vd.data))
      => /\ (NamedAndLabelled(vd.data) /\ AlignedSeries(vd.data) /\ NumericOrNull(vd.data))
              => vd.pc = "accepted"
         /\ (~AlignedSeries(vd.data) \/ ~NumericOrNull(vd.data))
              => /\ vd.pc = "threw"
                 /\ vd.error.type = "VALIDATION_ERROR"
                 /\ ~vd.error.retryable

\* C12: load attempt policy. Attempt numbers stay in 1..maxRetries; only
\* attempt 1 takes the cache-preferring path and later ones force a
\* bypass; a failed attempt k is followed by a wait of
\* retryDelay * 2^(k-1) and attempt k+1 exactly when k < maxRetries and the
\* error is retryable, and otherwise ends the call with the error stored.
LoadAttemptPolicy ==
    /\ [](\A p \in Procs : procs[p].pc # "idle" =>
            /\ procs[p].attempt \in 1..store.maxRetries
            /\ procs[p].useCache = (procs[p].attempt = 1)
            /\ procs[p].forceRefresh = (procs[p].attempt > 1)
            /\ procs[p].pc = "backoff" =>
                  /\ procs[p].attempt < store.maxRetries
                  /\ procs[p].delay = store.retryDelay * Pow(2, procs[p].attempt - 1))
    /\ [][\A p \in Procs :
            /\ (last'.op = "attemptFailed" /\ last'.proc = p) =>
                  /\ procs[p].attempt < store.maxRetries /\ last'.error.retryable
                  /\ procs'[p].pc = "backoff" /\ procs'[p].attempt = procs[p].attempt
            /\ (last'.op = "loadSettled" /\ last'.result = "errored" /\ last'.proc = p) =>
                  /\ ~(procs[p].attempt < store.maxRetries /\ store'.error.details.retryable)
                  /\ store'.error.details.attempt = procs[p].attempt
                  /\ procs'[p].pc = "idle"
            /\ (last'.op = "attemptLoad" /\ last'.proc = p) =>
                  /\ procs[p].pc = "backoff" /\ procs'[p].pc = "service"
                  /\ procs'[p].attempt = procs[p].attempt + 1]_vars

\* the third attempt of a call, made after waits of 1000 and 2000 ms
LoadAttemptPolicyWitness ==
    \E p \in Procs :
        /\ procs[p].pc = "service" /\ procs[p].attempt = MAX_RETRIES
        /\ procs[p].forceRefresh /\ ~procs[p].useCache
        /\ store.retryCount = MAX_RETRIES - 1
        /\ store.maxRetries = MAX_RETRIES

\* C13: loading state flags. The step that takes a loadSalesData() call
\* past the cache-validity check (called directly, by refreshData() or by
\* retryLoad()) sets isLoading, and sets isRefreshing exactly when the store
\* held a dataset when the load started: for refreshData(), either the
\* dataset it has just cleared or the null it left is taken as that.
LoadingFlags ==
    [][\A p \in Procs :
          (/\ last'.op \in {"loadSalesData", "refreshData", "retryLoad"}
           /\ last'.proc = p
           /\ procs[p].pc = "idle" /\ procs'[p].pc = "service")
            => /\ store'.isLoading
               /\ \/ store'.isRefreshing = (procs'[p].before # Null)
                  \/ store'.isRefreshing = (store.salesData # Null)]_vars

\* C14: no single-flight in the store. A loadSalesData() made while another
\* invocation is in flight and the store holds no valid dataset starts its
\* own attempt loop, the other one staying in flight; and whichever loop
\* settles, its outcome overwrites the store: its dataset with
\* lastUpdated = now and error null, or its error with salesData untouched.
NoStoreSingleFlight ==
    [][\A p \in Procs :
          /\ (/\ last'.op = "loadSalesData" /\ last'.proc = p
              /\ OthersInFlight(p)
              /\ ~(store.salesData # Null /\ isCacheValid(store)))
                => /\ procs'[p].pc = "service" /\ procs'[p].attempt = 1
                   /\ \A q \in Procs \ {p} : procs'[q].pc = procs[q].pc
          /\ (last'.op = "loadSettled" /\ last'.proc = p /\ last'.result = "loaded")
                => /\ store'.salesData =
                        (IF last'.source = "cache" THEN procs[p].response ELSE Dataset(now))
                   /\ store'.lastUpdated = DateOf(now)
                   /\ store'.error = Null
          /\ (last'.op = "loadSettled" /\ last'.proc = p /\ last'.result = "errored")
                => /\ store'.error # Null
                   /\ store'.error.details.attempt = procs[p].attempt
                   /\ store'.salesData = store.salesData]_vars

\* two loops ran together; the one that settled last, with an error,
\* leaves its error over the dataset the other one had written
NoStoreSingleFlightWitness ==
    /\ last.op = "loadSettled" /\ last.result = "errored" /\ last.overlap
    /\ last.before = Null /\ ~last.clean
    /\ store.salesData # Null /\ store.error # Null
    /\ \A p \in Procs : procs[p].pc = "idle"

\* C15: isLoading reflects in-flight work. In every state in which some
\* loadSalesData() attempt loop is in flight (past the cache-validity
\* check, its finally block not yet run), isLoading is true.
LoadingWhileInFlight ==
    (\E p \in Procs : procs[p].pc # "idle") => store.isLoading

\* C16: timeout does not cancel the load. The step at which the timeout
\* wins the race settles the run with success = false and the timeout
\* error, hands that result to the calls awaiting it, leaves initialized
\* false and leaves the store and the load untouched and in flight; and
\* that load goes on to its end, writing its dataset or its error.
TimedOutLoad(p) ==
    /\ procs[p].pc # "idle"
    /\ \E r \in Runs : /\ runs[r].pc = "done" /\ runs[r].load = p
                        /\ ~runs[r].result.success

TimeoutKeepsLoadRunning ==
    /\ [][\A r \in Runs :
            (last'.op = "runSettled" /\ last'.result = "timeout" /\ last'.run = r)
              => /\ ~runs'[r].result.success
                 /\ runs'[r].result.error = StringOf("Data loading timeout")
                 /\ ~initialized'
                 /\ \A c \in Callers :
                       (callers[c].pc = "awaiting" /\ callers[c].run = r)
                         => /\ callers'[c].pc = "returned"
                            /\ callers'[c].result = runs'[r].result
                 /\ store' = store /\ procs' = procs
                 /\ procs[runs[r].load].pc # "idle"]_vars
    /\ \A p \in Procs :
          TimedOutLoad(p) ~> (/\ last.op = "loadSettled" /\ last.proc = p
                              /\ last.result \in {"loaded", "errored"}
                              /\ last.run = 0)

\* the load of a timed-out run delivering its dataset afterwards
TimeoutKeepsLoadRunningWitness ==
    /\ runs[1].pc = "done" /\ runs[2].pc = "none"
    /\ ~runs[1].result.success
    /\ runs[1].result.error = StringOf("Data loading timeout")
    /\ ~initialized
    /\ last.op = "loadSettled" /\ last.proc = 1 /\ last.result = "loaded"
    /\ last.run = 0
    /\ store.salesData # Null /\ ~store.isLoading

\* C17: initialization mutual exclusion. At most one run of
\* _performInitialization is in flight at any time, and a step that clears
\* initializationPromise (other than reset() itself) is the completion of
\* the run it refers to.
InitMutualExclusion ==
    /\ [](Cardinality({r \in Runs : InFlight(r)}) <= 1)
    /\ [][(initializationPromise # 0 /\ initializationPromise' = 0 /\ last'.op # "reset")
            => /\ InFlight(initializationPromise)
               /\ runs'[initializationPromise].pc = "done"]_vars

\* C18: errored state retains data. When a load ends in failure (called
\* directly, by refreshData() or by retryLoad()) and nothing else wrote the
\* store meanwhile, error is set and salesData is the dataset the store
\* held before the failing operation was invoked.
ErroredRetainsData ==
    (last.op = "loadSettled" /\ last.result = "errored" /\ last.clean)
      => /\ store.error # Null
         /\ store.salesData = last.before
         /\ ~last.cleared

\* C19: errors are data, not exceptions. Whatever the remote source
\* throws, the promise of the call resolves, and the failure that ends the
\* call is stored as an error record with the error's type as code, its
\* retryable flag and the number of the attempt that failed.
ErrorsAreData ==
    /\ [](last.op = "loadSettled" => last.promise = "resolved")
    /\ [][\A p \in Procs :
            (last'.op = "loadSettled" /\ last'.proc = p /\ last'.result = "errored")
              => /\ store'.error.kind = "DataError"
                 /\ store'.error.code = last'.error.type
                 /\ store'.error.details.retryable = last'.error.retryable
                 /\ store'.error.details.attempt = procs[p].attempt]_vars

\* a validation error on the second attempt of a call
ErrorsAreDataWitness ==
    /\ last.op = "loadSettled" /\ last.result = "errored"
    /\ last.promise = "resolved"
    /\ store.error.code = "VALIDATION_ERROR"
    /\ ~store.error.details.retryable
    /\ store.error.details.attempt = 2

\* C20: load termination. With every simulated remote call answering and
\* every backoff timer firing, each loadSalesData() call that passed the
\* cache-validity check completes; and whenever a call completes, loaded
\* or errored, isLoading and isRefreshing are false.
LoadTerminates ==
    /\ [](last.op = "loadSettled" => ~store.isLoading /\ ~store.isRefreshing)
    /\ \A p \in Procs :
          (procs[p].pc # "idle")
            ~> (/\ last.op = "loadSettled" /\ last.proc = p
                /\ last.result \in {"loaded", "errored"}
                /\ ~store.isLoading /\ ~store.isRefreshing)

\* a call that ends in error on its last attempt, after a refresh
LoadTerminatesWitness ==
    /\ last.op = "loadSettled" /\ last.result = "errored"
    /\ store.error.details.attempt = MAX_RETRIES
    /\ ~store.isInitialLoad
    /\ ~store.isLoading /\ ~store.isRefreshing

\* C21: UI retry action. When the store holds an error with canRetry()
\* true and no load is in flight, the notification's Retry button starts a
\* new load: retryLoad proceeds, isLoading becomes true and the remote
\* source is invoked.
RetryButtonStartsLoad ==
    [][\A p \in Procs :
          (/\ last'.op = "handleRetryAll" /\ last'.proc = p
           /\ store.error # Null /\ canRetry(store)
           /\ \A q \in Procs : procs[q].pc = "idle")
            => /\ procs'[p].pc = "service"
               /\ store'.isLoading]_vars
\* the error's detail payload explicitly marks it non-retryable
MarkedNonRetryable(error) ==
    "retryable" \in DOMAIN error.details /\ error.details.retryable = FALSE

\* C22: retryCount stays below the bound. In every state
\* 0 <= retryCount <= maxRetries - 1, so canRetry() is true exactly when an
\* error is present whose details do not mark it non-retryable; it is true
\* in particular when a load has just used up all its attempts on a
\* retryable error.
RetryCountBelowBound ==
    /\ store.maxRetries >= 1
    /\ store.retryCount \in 0..(store.maxRetries - 1)
    /\ canRetry(store) <=> (store.error # Null /\ ~MarkedNonRetryable(store.error))
    /\ (/\ last.op = "loadSettled" /\ last.result = "errored"
        /\ last.error.retryable
        /\ store.error.details.attempt = store.maxRetries)
          => canRetry(store)

\* all three attempts failed with a retryable error
RetryCountBelowBoundWitness ==
    /\ last.op = "loadSettled" /\ last.result = "errored"
    /\ last.error.retryable
    /\ store.error.details.attempt = MAX_RETRIES
    /\ store.retryCount = MAX_RETRIES - 1
    /\ canRetry(store)
\* C23: successful api loads populate the cache. The step at which a
\* service call succeeds through the api path, whatever its options, leaves
\* the dataset it returned in the DataCache under the fixed key, expiring
\* CACHE_DURATION_MS later, so that a call with useCache = true and
\* forceRefresh = false made right then is answered from the cache.
ApiLoadPopulatesCache ==
    [][(last'.op = "loadSettled" /\ last'.result = "loaded" /\ last'.source = "api")
         => /\ cache'[CacheKey] # Null
            /\ cache'[CacheKey].data = store'.salesData
            /\ cache'[CacheKey].expiresAt = now + CACHE_DURATION_MS
            /\ ServiceResponse(cache', TRUE, FALSE) = store'.salesData]_vars
\* C24: getCacheStatus reports validity. A getCacheStatus(k) made at time
\* t has cached = true exactly when has(k) would be true at t (the last
\* set of k not cleared since and not expired at t), and then its age is t
\* minus the time of that set.
CacheStatusReportsValidity ==
    (ret # Null /\ ret.op = "status")
      => /\ ret.value.cached <=> Live(ret.key, ret.at)
         /\ ret.value.cached => ret.value.age = ret.at - written[ret.key].at
\* C25: staleness bound. In every state in which isCacheValid() is true,
\* the dataset the store holds came out of the remote source's api path no
\* more than cacheExpiry milliseconds ago.
StalenessBound ==
    isCacheValid(store) => now - store.salesData.born <= store.cacheExpiry
\* C26: idempotent initialization. A call that completes with success
\* leaves initialized set and no initialization in progress; nothing but
\* reset() takes that state away; and every initialize() made in it returns
\* at once with success = true, fromCache = true and loadTime = 0, starts
\* no run and leaves the store, the DataCache and the loads alone.
IdempotentInitialize ==
    /\ [][\A r \in Runs :
            (runs[r].pc # "done" /\ runs'[r].pc = "done" /\ runs'[r].result.success)
              => initialized' /\ initializationPromise' = 0]_vars
    /\ [][(initialized /\ initializationPromise = 0 /\ last'.op # "reset")
            => initialized' /\ initializationPromise' = 0]_vars
    /\ [][\A c \in Callers :
            (/\ last'.op = "initialize" /\ last'.proc = c
             /\ initialized /\ initializationPromise = 0)
              => /\ callers'[c].pc = "returned"
                 /\ callers'[c].result.success
                 /\ callers'[c].result.fromCache
                 /\ callers'[c].result.loadTime = 0
                 /\ UNCHANGED <<store, storage, cache, procs, runs>>]_vars
PersistedFields == {"salesData", "lastUpdated", "cacheExpiry", "maxRetries", "retryDelay"}

\* st holds what held holds on the persisted fields, and the initial values
\* on all others
RestoredFrom(st, held) ==
    \A f \in DOMAIN InitialState :
        st[f] = IF f \in PersistedFields THEN held[f] ELSE InitialState[f]

DataImpliesNotInitial ==
    store.salesData # Null => (~store.isInitialLoad /\ isInitialized(store))
\* C29: retryLoad is gated by canRetry. A retryLoad() made while canRetry()
\* is false changes no store field and calls nothing; made while canRetry()
\* is true it leaves error null and retryCount 0 and goes through
\* loadSalesData(): past the cache-validity check with isLoading set and
\* attempt 1 calling the service, or, if the held dataset is still valid,
\* back with nothing else changed.
RetryGatedByCanRetry ==
    [][\A p \in Procs :
          (last'.op = "retryLoad" /\ last'.proc = p)
            => IF ~canRetry(store)
               THEN UNCHANGED <<store, storage, cache, procs>>
               ELSE /\ store'.error = Null /\ store'.retryCount = 0
                    /\ IF store.salesData # Null /\ isCacheValid(store)
                       THEN /\ store' = Set(store, [error |-> Null, retryCount |-> 0])
                            /\ procs'[p].pc = "idle"
                            /\ cache' = cache
                       ELSE /\ store'.isLoading
                            /\ store'.salesData = store.salesData
                            /\ procs'[p].pc = "service"
                            /\ procs'[p].attempt = 1]_vars

\* a retry after a load that failed on all its attempts
RetryGatedByCanRetryWitness ==
    /\ last.op = "retryLoad" /\ last.result = "retried"
    /\ procs[last.proc].pc = "service" /\ procs[last.proc].attempt = 1
    /\ store.isLoading /\ store.error = Null /\ store.retryCount = 0
    /\ \A q \in Procs \ {last.proc} : procs[q].pc = "idle"
\* C30: error excludes loading. In every state of the store, whatever the
\* order of loadSalesData, refreshData, retryLoad, clearData and setError
\* calls and of the loads' continuations, a held error means isLoading and
\* isRefreshing are false.
ErrorExcludesLoading ==
    store.error # Null => (~store.isLoading /\ ~store.isRefreshing)

\* one of two loads running together has failed, the other is still in
\* flight
ErrorExcludesLoadingWitness ==
    /\ store.error # Null
    /\ last.op = "loadSettled" /\ last.result = "errored" /\ last.overlap
    /\ \E p \in Procs : procs[p].pc # "idle"
    /\ ~store.isLoading /\ ~store.isRefreshing
====
